---- MODULE Spec2Model ----
(***************************************************************************)
(* The write-path memory table of be/src/olap/memtable.cpp: one MemTable   *)
(* owned by one writer thread.  Rows are sequences of cells, one cell per  *)
(* column of the schema; the skip list is the sequence of the rows it      *)
(* holds, in iteration order.  The skip list, the row comparison, the      *)
(* per-column aggregate functions and the memory pools live outside        *)
(* memtable.cpp; they are modelled from their contracts.                   *)
(***************************************************************************)
EXTENDS Integers, Sequences, FiniteSets, TLC

\* ------------------------------------------------------------------ bounds
\* Number of insert calls made on one memtable.
MaxRows == 3
\* Key column values are 1..MaxKey.
MaxKey == 2
\* Values a non-key slot of an input tuple may carry (tuples carry no nulls).
Vals == {0, 1}

\* Calls of flush() and close() on one memtable, where more than one is allowed.
MaxFlushRuns == 2
\* Bits of a key column value that enter the Z-order interleaving.
ZBitWidth == 2

VARIABLES
    keys_type,            \* _keys_type: DUP_KEYS, AGG_KEYS or UNIQUE_KEYS
    schema,               \* _schema: per column "KEY" or its aggregation method
    has_sequence_col,     \* _tablet_schema->has_sequence_col()
    sort_type,            \* _tablet_schema->sort_type(): LEXICAL or ZORDER
    sort_col_num,         \* _tablet_schema->sort_col_num()
    skip_list,            \* _skip_list: the rows of the index, in iteration order
    row_arena,            \* per index entry, the arena its block was taken from
    hint,                 \* _hint.curr: position left by the last Find
    rows,                 \* _rows
    mem_tracker,          \* blocks accounted to _mem_tracker
    buffer_mem_pool_reserved, \* blocks _buffer_mem_pool holds, live or free
    buffer_mem_pool,      \* live blocks of _buffer_mem_pool
    table_mem_pool,       \* live blocks of _table_mem_pool
    agg_buffer_pool,      \* objects held by _agg_buffer_pool
    agg_object_pool,      \* objects held by _agg_object_pool
    crashed,              \* an insert used a block the tracker had denied
    flush_size,           \* _flush_size
    memtable_flush_total, \* DorisMetrics memtable_flush_total
    flush_ret,            \* status returned by flush()/close(), "NONE" before
    writer_calls,         \* calls received by the rowset writer and their statuses
    written,              \* rows the rowset writer accepted, in order
    hist,                 \* tuples of the insert calls that completed, in order
    it,                   \* MemTable::Iterator _it: its position, 0 before there is one
    yielded,              \* rows get_current_row returned, with their positions
    value_str,            \* utils.cpp: the text handed to valid_decimal / valid_datetime
    precision,            \* valid_decimal: precision
    frac,                 \* valid_decimal: frac
    ret                   \* what the validation returned, "NONE" before it did

vars == <<keys_type, schema, has_sequence_col, sort_type, sort_col_num, skip_list, row_arena, hint, rows,
          mem_tracker, buffer_mem_pool_reserved, buffer_mem_pool, table_mem_pool, agg_buffer_pool, agg_object_pool,
          crashed, flush_size, memtable_flush_total, flush_ret, writer_calls,
          written, hist, it, yielded, value_str, precision, frac, ret>>

\* The state of a memtable, and the call of a validation function of utils.cpp.
memtable_vars ==
    <<keys_type, schema, has_sequence_col, sort_type, sort_col_num, skip_list, row_arena, hint, rows,
      mem_tracker, buffer_mem_pool_reserved, buffer_mem_pool, table_mem_pool, agg_buffer_pool, agg_object_pool,
      crashed, flush_size, memtable_flush_total, flush_ret, writer_calls,
      written, hist, it, yielded>>

utils_vars == <<value_str, precision, frac, ret>>

\* ------------------------------------------------------------ construction
\* The tablets without a sequence column a memtable is built for: key model
\* and columns.
Configs ==
    { [keys_type |-> "DUP_KEYS",    schema |-> <<"KEY", "NONE">>,         has_sequence_col |-> FALSE,
        sort_type |-> "LEXICAL", sort_col_num |-> 1],
      [keys_type |-> "AGG_KEYS",    schema |-> <<"KEY", "SUM">>,          has_sequence_col |-> FALSE,
        sort_type |-> "LEXICAL", sort_col_num |-> 1],
      [keys_type |-> "AGG_KEYS",    schema |-> <<"KEY", "MIN">>,          has_sequence_col |-> FALSE,
        sort_type |-> "LEXICAL", sort_col_num |-> 1],
      [keys_type |-> "AGG_KEYS",    schema |-> <<"KEY", "MAX">>,          has_sequence_col |-> FALSE,
        sort_type |-> "LEXICAL", sort_col_num |-> 1],
      [keys_type |-> "AGG_KEYS",    schema |-> <<"KEY", "REPLACE">>,      has_sequence_col |-> FALSE,
        sort_type |-> "LEXICAL", sort_col_num |-> 1],
      [keys_type |-> "AGG_KEYS",    schema |-> <<"KEY", "BITMAP_UNION">>, has_sequence_col |-> FALSE,
        sort_type |-> "LEXICAL", sort_col_num |-> 1],
      [keys_type |-> "UNIQUE_KEYS", schema |-> <<"KEY", "REPLACE">>,      has_sequence_col |-> FALSE,
        sort_type |-> "LEXICAL", sort_col_num |-> 1] }

\* The tablets with a sequence column: it is the last column.
SeqConfigs ==
    { [keys_type |-> "UNIQUE_KEYS", schema |-> <<"KEY", "REPLACE", "REPLACE">>, has_sequence_col |-> TRUE,
        sort_type |-> "LEXICAL", sort_col_num |-> 1] }

\* Tablets sorted in Z-order over their two key columns.
ZOrderConfigs ==
    { [keys_type |-> "DUP_KEYS",    schema |-> <<"KEY", "KEY">>, has_sequence_col |-> FALSE,
        sort_type |-> "ZORDER", sort_col_num |-> 2],
      [keys_type |-> "UNIQUE_KEYS", schema |-> <<"KEY", "KEY">>, has_sequence_col |-> FALSE,
        sort_type |-> "ZORDER", sort_col_num |-> 2] }

\* The tablets whose equal keys are merged, without and with a sequence column.
MergeConfigs ==
    SeqConfigs \cup { c \in Configs : /\ c.keys_type # "DUP_KEYS"
                                     /\ c.schema[2] \in {"SUM", "REPLACE"} }

sequence_col_idx == Len(schema)

num_columns == Len(schema)

\* Faulty variant of can_dup: the flag is derived from the wrong key model.
can_dup_agg == keys_type = "AGG_KEYS"

\* _skip_list = new Table(_row_comparator, _table_mem_pool, _keys_type == DUP_KEYS)
can_dup == keys_type = "DUP_KEYS"

\* --------------------------------------------------------------- row codec
\* The values slot i of an input tuple may carry.  A bitmap slot carries a
\* serialized bitmap.
SlotValues(col) ==
    CASE col = "KEY" -> 1..MaxKey
      [] col = "BITMAP_UNION" -> { [rep |-> "slice", bits |-> {v}] : v \in Vals }
      [] OTHER -> Vals

RECURSIVE TuplesOf(_)
TuplesOf(s) ==
    IF s = <<>> THEN { <<>> }
    ELSE { <<c>> \o t : c \in SlotValues(Head(s)), t \in TuplesOf(Tail(s)) }

Tuples == TuplesOf(schema)

\* Field::consume: a primitive slot is copied; a bitmap slot is decoded into an
\* object created in the aggregate object pool handed in.
consume(col, value) ==
    IF col = "BITMAP_UNION" THEN [rep |-> "obj", bits |-> value.bits] ELSE value

\* Objects consume creates in the pool for one tuple.
NumAggObjects == Cardinality({ i \in 1..num_columns : schema[i] = "BITMAP_UNION" })

tuple_to_row(tuple) == [i \in 1..num_columns |-> consume(schema[i], tuple[i])]

\* copy_row_in_memtable: the destination block receives the source's cells.
copy_row_in_memtable(src_row) == src_row

\* -------------------------------------------------------------- comparator
compare_cell(l, r) == IF l < r THEN -1 ELSE IF l > r THEN 1 ELSE 0

\* compare_row: the key columns, in schema order.
RECURSIVE compare_row_from(_, _, _)
compare_row_from(lhs, rhs, cid) ==
    IF cid > num_columns \/ schema[cid] # "KEY" THEN 0
    ELSE LET res == compare_cell(lhs[cid], rhs[cid])
         IN IF res # 0 THEN res ELSE compare_row_from(lhs, rhs, cid + 1)

compare_row(lhs, rhs) == compare_row_from(lhs, rhs, 1)

RowCursorComparator(left, right) == compare_row(left, right)

\* Bit b (0 the lowest) of a column value.
BitOf(v, b) == (v \div (2 ^ b)) % 2

\* The bits of the first k columns interleaved, highest bit first, the first
\* column leading within each bit position.
ZValue(row, k) ==
    [j \in 1..(ZBitWidth * k) |->
        BitOf(row[((j - 1) % k) + 1], ZBitWidth - 1 - ((j - 1) \div k))]

\* TupleRowZOrderComparator: by the interleaved bits of the first sort_col_num
\* columns, ties broken by the key columns after them.
TupleRowZOrderComparator(left, right, k) ==
    LET zl == ZValue(left, k)
        zr == ZValue(right, k)
        diff == { j \in 1..(ZBitWidth * k) : zl[j] # zr[j] }
    IN IF diff = {}
       THEN compare_row_from(left, right, k + 1)
       ELSE LET j == CHOOSE d \in diff : \A e \in diff : d <= e
            IN compare_cell(zl[j], zr[j])

\* Faulty variant of row_comparator: the sort type of the tablet is not consulted.
row_comparator_lexical(left, right) == RowCursorComparator(left, right)

\* _row_comparator, as the constructor chooses it.
row_comparator(left, right) ==
    IF sort_type = "ZORDER"
    THEN TupleRowZOrderComparator(left, right, sort_col_num)
    ELSE RowCursorComparator(left, right)

\* ------------------------------------------------------------ ordered index
InsertAt(list, pos, key) ==
    SubSeq(list, 1, pos - 1) \o <<key>> \o SubSeq(list, pos, Len(list))

\* Position of the first entry at or after key, Len + 1 when there is none.
FindGreaterOrEqual(list, key) ==
    LET ge == { i \in 1..Len(list) : row_comparator(list[i], key) >= 0 }
    IN IF ge = {} THEN Len(list) + 1
       ELSE CHOOSE i \in ge : \A j \in ge : i <= j

\* Position of the first entry after key, Len + 1 when there is none.
FindGreater(list, key) ==
    LET gt == { i \in 1..Len(list) : row_comparator(list[i], key) > 0 }
    IN IF gt = {} THEN Len(list) + 1
       ELSE CHOOSE i \in gt : \A j \in gt : i <= j

\* find(key) -> (found, hint)
SkipListFind(list, key) ==
    LET curr == FindGreaterOrEqual(list, key)
    IN [found |-> curr <= Len(list) /\ row_comparator(list[curr], key) = 0,
        hint |-> curr]

\* insert_with_hint(key, found, hint): inserts at the location the hint names.
SkipListInsertWithHint(list, key, is_exist, h) == InsertAt(list, h, key)

\* insert(key) -> overwritten: with duplicates allowed always inserts, after the
\* equal keys already there; otherwise an equal key is reported and not inserted.
\* pos is where the key went in, 0 when it did not.
SkipListInsert(list, key, dup) ==
    IF dup
    THEN [list |-> InsertAt(list, FindGreater(list, key), key), overwritten |-> FALSE,
          pos |-> FindGreater(list, key)]
    ELSE IF SkipListFind(list, key).found
         THEN [list |-> list, overwritten |-> TRUE, pos |-> 0]
         ELSE [list |-> InsertAt(list, FindGreaterOrEqual(list, key), key),
               overwritten |-> FALSE, pos |-> FindGreaterOrEqual(list, key)]

\* Table::Iterator: a position in the list.
SkipListSeekToFirst == 1

SkipListValid(list, pos) == pos <= Len(list)

SkipListNext(pos) == pos + 1

SkipListKey(list, pos) == list[pos]

\* -------------------------------------------------------------- aggregator
agg_update(method, dst_cell, src_cell) ==
    CASE method = "SUM" -> dst_cell + src_cell
      [] method = "MIN" -> IF src_cell < dst_cell THEN src_cell ELSE dst_cell
      [] method = "MAX" -> IF src_cell > dst_cell THEN src_cell ELSE dst_cell
      [] method = "REPLACE" -> src_cell
      [] method = "BITMAP_UNION" ->
            [rep |-> "obj", bits |-> dst_cell.bits \cup src_cell.bits]
      [] OTHER -> dst_cell

\* update(dst, src)
agg_update_row(dst, src) ==
    [cid \in 1..num_columns |->
        IF schema[cid] = "KEY" THEN dst[cid]
        ELSE agg_update(schema[cid], dst[cid], src[cid])]

\* update_with_sequence(dst, src, seq_idx)
agg_update_row_with_sequence(dst, src, seq_idx) ==
    IF src[seq_idx] >= dst[seq_idx]
    THEN [cid \in 1..num_columns |->
            IF schema[cid] = "KEY" THEN dst[cid] ELSE src[cid]]
    ELSE dst

\* finalize(row): aggregate state becomes its externally visible form.
agg_finalize(method, cell) ==
    IF method = "BITMAP_UNION" THEN [rep |-> "slice", bits |-> cell.bits] ELSE cell

agg_finalize_row(row) ==
    [cid \in 1..num_columns |->
        IF schema[cid] = "KEY" THEN row[cid] ELSE agg_finalize(schema[cid], row[cid])]

\* ------------------------------------------------------------------ insert
\* Faulty variant of buffer_mem_pool_tracker: the scratch pool is created without
\* a tracker.
buffer_mem_pool_untracked == "none"

\* _buffer_mem_pool(new MemPool(_mem_tracker.get()))
buffer_mem_pool_tracker == "mem_tracker"

\* _table_mem_pool(new MemPool(_mem_tracker.get()))
table_mem_pool_tracker == "mem_tracker"

\* A pool that takes a new block reports it to the tracker it was created with.
MemTracker_consume(tracker, consumption, blocks) ==
    IF tracker = "mem_tracker" THEN consumption + blocks ELSE consumption

\* The memtable fields insert reads and writes, as one record.
Mem ==
    [skip_list |-> skip_list, row_arena |-> row_arena, hint |-> hint, rows |-> rows,
     mem_tracker |-> mem_tracker, buffer_mem_pool_reserved |-> buffer_mem_pool_reserved,
     buffer_mem_pool |-> buffer_mem_pool, table_mem_pool |-> table_mem_pool,
     agg_buffer_pool |-> agg_buffer_pool, agg_object_pool |-> agg_object_pool,
     crashed |-> crashed]

EmptyMem ==
    [skip_list |-> <<>>, row_arena |-> <<>>, hint |-> 0, rows |-> 0,
     mem_tracker |-> 0, buffer_mem_pool_reserved |-> 0,
     buffer_mem_pool |-> 0, table_mem_pool |-> 0,
     agg_buffer_pool |-> 0, agg_object_pool |-> 0,
     crashed |-> FALSE]

\* Faulty variant of aggregate_two_row: the merge lands in the scratch row, the row in
\* the skip list stays as it was.
aggregate_two_row_into_src(src_row, row_in_skiplist) == row_in_skiplist

\* Faulty variant of aggregate_two_row: the row in the skip list is overwritten.
aggregate_two_row_overwrite(src_row, row_in_skiplist) ==
    [cid \in 1..num_columns |->
        IF schema[cid] = "KEY" THEN row_in_skiplist[cid] ELSE src_row[cid]]

\* Faulty variant of aggregate_two_row: the sequence column is not consulted.
aggregate_two_row_no_sequence(src_row, row_in_skiplist) ==
    agg_update_row(row_in_skiplist, src_row)

\* Faulty variant of aggregate_two_row: the sequence column is consulted whether
\* the schema has one or not.
aggregate_two_row_always_sequence(src_row, row_in_skiplist) ==
    agg_update_row_with_sequence(row_in_skiplist, src_row, sequence_col_idx)

aggregate_two_row(src_row, row_in_skiplist) ==
    IF has_sequence_col
    THEN agg_update_row_with_sequence(row_in_skiplist, src_row, sequence_col_idx)
    ELSE agg_update_row(row_in_skiplist, src_row)

\* Faulty variant of insert_dup: the row goes in through Find and InsertWithHint, at
\* the position of the first entry not before it.
insert_dup_hinted(m, tuple, deny) ==
    IF deny = "table"
    THEN [m EXCEPT !.crashed = TRUE]
    ELSE LET row == tuple_to_row(tuple)
             f == SkipListFind(m.skip_list, row)
         IN [m EXCEPT !.table_mem_pool = @ + 1,
                      !.mem_tracker = MemTracker_consume(table_mem_pool_tracker, @, 1),
                      !.agg_buffer_pool = @ + NumAggObjects,
                      !.row_arena = InsertAt(@, f.hint, "table"),
                      !.skip_list = SkipListInsertWithHint(m.skip_list, row,
                                                           FALSE, f.hint)]

\* The DUP_KEYS branch.  deny names the pool whose next allocation the tracker
\* denies.  insert checks no allocation result: the row is written through the
\* block it did not get, the write faults, and the memtable stays as it was
\* at that point, never to be used again.
insert_dup(m, tuple, deny) ==
    IF deny = "table"
    THEN [m EXCEPT !.crashed = TRUE]
    ELSE LET row == tuple_to_row(tuple)
             res == SkipListInsert(m.skip_list, row, can_dup)
         IN [m EXCEPT !.table_mem_pool = @ + 1,
                      !.mem_tracker = MemTracker_consume(table_mem_pool_tracker, @, 1),
                      !.agg_buffer_pool = @ + NumAggObjects,
                      !.row_arena = IF res.overwritten THEN @
                                    ELSE InsertAt(@, res.pos, "table"),
                      !.skip_list = res.list]

\* Faulty variant of find_row: the answer of Find is dropped, the key counts as new.
find_row_never_found(m, src_row) ==
    [found |-> FALSE, hint |-> SkipListFind(m.skip_list, src_row).hint]

\* _skip_list->Find((TableKey)_tuple_buf, &_hint)
find_row(m, src_row) == SkipListFind(m.skip_list, src_row)

\* Faulty variant of insert_agg: InsertWithHint receives the hint an earlier insert
\* left in _hint, not the one Find has just produced.
insert_agg_stale_hint(m, tuple, deny) ==
    IF deny = "buffer" /\ m.buffer_mem_pool_reserved = 0
    THEN [m EXCEPT !.crashed = TRUE]
    ELSE LET src_row == tuple_to_row(tuple)
             f == find_row(m, src_row)
             stale == IF m.hint = 0 THEN f.hint ELSE m.hint
             m1 == [m EXCEPT !.buffer_mem_pool = @ + 1,
                             !.buffer_mem_pool_reserved = 1,
                             !.mem_tracker = IF m.buffer_mem_pool_reserved = 0
                                           THEN MemTracker_consume(buffer_mem_pool_tracker, @, 1)
                                           ELSE @,
                             !.agg_buffer_pool = @ + NumAggObjects,
                             !.hint = f.hint]
         IN IF f.found
            THEN [m1 EXCEPT !.skip_list[f.hint] =
                                aggregate_two_row(src_row, m1.skip_list[f.hint]),
                            !.buffer_mem_pool = 0,
                            !.agg_buffer_pool = 0]
            ELSE IF deny = "table"
            THEN [m1 EXCEPT !.crashed = TRUE]
            ELSE [m1 EXCEPT !.table_mem_pool = @ + 1,
                            !.mem_tracker = MemTracker_consume(table_mem_pool_tracker, @, 1),
                            !.agg_object_pool = @ + m1.agg_buffer_pool,
                            !.row_arena = InsertAt(@, stale, "table"),
                            !.skip_list = SkipListInsertWithHint(
                                m1.skip_list, copy_row_in_memtable(src_row),
                                f.found, stale),
                            !.buffer_mem_pool = 0,
                            !.agg_buffer_pool = 0]

\* Faulty variant of insert_agg: the scratch arena is not reset at the end.
insert_agg_no_buffer_clear(m, tuple, deny) ==
    IF deny = "buffer" /\ m.buffer_mem_pool_reserved = 0
    THEN [m EXCEPT !.crashed = TRUE]
    ELSE LET src_row == tuple_to_row(tuple)
             f == find_row(m, src_row)
             m1 == [m EXCEPT !.buffer_mem_pool = @ + 1,
                             !.buffer_mem_pool_reserved = 1,
                             !.mem_tracker = IF m.buffer_mem_pool_reserved = 0
                                           THEN MemTracker_consume(buffer_mem_pool_tracker, @, 1)
                                           ELSE @,
                             !.agg_buffer_pool = @ + NumAggObjects,
                             !.hint = f.hint]
         IN IF f.found
            THEN [m1 EXCEPT !.skip_list[f.hint] =
                                aggregate_two_row(src_row, m1.skip_list[f.hint]),
                            !.agg_buffer_pool = 0]
            ELSE IF deny = "table"
            THEN [m1 EXCEPT !.crashed = TRUE]
            ELSE [m1 EXCEPT !.table_mem_pool = @ + 1,
                            !.mem_tracker = MemTracker_consume(table_mem_pool_tracker, @, 1),
                            !.agg_object_pool = @ + m1.agg_buffer_pool,
                            !.row_arena = InsertAt(@, m1.hint, "table"),
                            !.skip_list = SkipListInsertWithHint(
                                m1.skip_list, copy_row_in_memtable(src_row),
                                f.found, m1.hint),
                            !.agg_buffer_pool = 0]

\* Faulty variant of insert_agg: on the found path the scratch aggregate pool is
\* not cleared, the objects consume created for the merged row stay in it.
insert_agg_no_pool_clear(m, tuple, deny) ==
    IF deny = "buffer" /\ m.buffer_mem_pool_reserved = 0
    THEN [m EXCEPT !.crashed = TRUE]
    ELSE LET src_row == tuple_to_row(tuple)
             f == find_row(m, src_row)
             m1 == [m EXCEPT !.buffer_mem_pool = @ + 1,
                             !.buffer_mem_pool_reserved = 1,
                             !.mem_tracker = IF m.buffer_mem_pool_reserved = 0
                                           THEN MemTracker_consume(buffer_mem_pool_tracker, @, 1)
                                           ELSE @,
                             !.agg_buffer_pool = @ + NumAggObjects,
                             !.hint = f.hint]
         IN IF f.found
            THEN [m1 EXCEPT !.skip_list[f.hint] =
                                aggregate_two_row(src_row, m1.skip_list[f.hint]),
                            !.buffer_mem_pool = 0]
            ELSE IF deny = "table"
            THEN [m1 EXCEPT !.crashed = TRUE]
            ELSE [m1 EXCEPT !.table_mem_pool = @ + 1,
                            !.mem_tracker = MemTracker_consume(table_mem_pool_tracker, @, 1),
                            !.agg_object_pool = @ + m1.agg_buffer_pool,
                            !.row_arena = InsertAt(@, m1.hint, "table"),
                            !.skip_list = SkipListInsertWithHint(
                                m1.skip_list, copy_row_in_memtable(src_row),
                                f.found, m1.hint),
                            !.buffer_mem_pool = 0,
                            !.agg_buffer_pool = 0]

\* Faulty variant of insert_agg: on the not-found path no block is taken from
\* the table arena, the scratch block that holds the encoded row goes into
\* the index.
insert_agg_scratch_block(m, tuple, deny) ==
    IF deny = "buffer" /\ m.buffer_mem_pool_reserved = 0
    THEN [m EXCEPT !.crashed = TRUE]
    ELSE LET src_row == tuple_to_row(tuple)
             f == find_row(m, src_row)
             m1 == [m EXCEPT !.buffer_mem_pool = @ + 1,
                             !.buffer_mem_pool_reserved = 1,
                             !.mem_tracker = IF m.buffer_mem_pool_reserved = 0
                                           THEN MemTracker_consume(buffer_mem_pool_tracker, @, 1)
                                           ELSE @,
                             !.agg_buffer_pool = @ + NumAggObjects,
                             !.hint = f.hint]
         IN IF f.found
            THEN [m1 EXCEPT !.skip_list[f.hint] =
                                aggregate_two_row(src_row, m1.skip_list[f.hint]),
                            !.buffer_mem_pool = 0,
                            !.agg_buffer_pool = 0]
            ELSE [m1 EXCEPT !.agg_object_pool = @ + m1.agg_buffer_pool,
                            !.row_arena = InsertAt(@, m1.hint, "buffer"),
                            !.skip_list = SkipListInsertWithHint(
                                m1.skip_list, src_row, f.found, m1.hint),
                            !.buffer_mem_pool = 0,
                            !.agg_buffer_pool = 0]

\* Faulty variant of insert_agg: the block of the table arena is taken before
\* Find, so an insert that merges into an existing row takes one as well.
insert_agg_alloc_before_find(m, tuple, deny) ==
    IF deny = "buffer" /\ m.buffer_mem_pool_reserved = 0
    THEN [m EXCEPT !.crashed = TRUE]
    ELSE LET src_row == tuple_to_row(tuple)
             f == find_row(m, src_row)
             m1 == [m EXCEPT !.buffer_mem_pool = @ + 1,
                             !.buffer_mem_pool_reserved = 1,
                             !.mem_tracker = IF m.buffer_mem_pool_reserved = 0
                                           THEN MemTracker_consume(buffer_mem_pool_tracker, @, 1)
                                           ELSE @,
                             !.agg_buffer_pool = @ + NumAggObjects,
                             !.hint = f.hint]
         IN IF deny = "table"
            THEN [m1 EXCEPT !.crashed = TRUE]
            ELSE IF f.found
            THEN [m1 EXCEPT !.table_mem_pool = @ + 1,
                            !.mem_tracker = MemTracker_consume(table_mem_pool_tracker, @, 1),
                            !.skip_list[f.hint] =
                                aggregate_two_row(src_row, m1.skip_list[f.hint]),
                            !.buffer_mem_pool = 0,
                            !.agg_buffer_pool = 0]
            ELSE [m1 EXCEPT !.table_mem_pool = @ + 1,
                            !.mem_tracker = MemTracker_consume(table_mem_pool_tracker, @, 1),
                            !.agg_object_pool = @ + m1.agg_buffer_pool,
                            !.row_arena = InsertAt(@, m1.hint, "table"),
                            !.skip_list = SkipListInsertWithHint(
                                m1.skip_list, copy_row_in_memtable(src_row),
                                f.found, m1.hint),
                            !.buffer_mem_pool = 0,
                            !.agg_buffer_pool = 0]

\* Faulty variant of insert_agg: on the not-found path the durable pool does not
\* take over the objects of the scratch pool before the scratch pool is cleared.
insert_agg_no_acquire(m, tuple, deny) ==
    IF deny = "buffer" /\ m.buffer_mem_pool_reserved = 0
    THEN [m EXCEPT !.crashed = TRUE]
    ELSE LET src_row == tuple_to_row(tuple)
             f == find_row(m, src_row)
             m1 == [m EXCEPT !.buffer_mem_pool = @ + 1,
                             !.buffer_mem_pool_reserved = 1,
                             !.mem_tracker = IF m.buffer_mem_pool_reserved = 0
                                           THEN MemTracker_consume(buffer_mem_pool_tracker, @, 1)
                                           ELSE @,
                             !.agg_buffer_pool = @ + NumAggObjects,
                             !.hint = f.hint]
         IN IF f.found
            THEN [m1 EXCEPT !.skip_list[f.hint] =
                                aggregate_two_row(src_row, m1.skip_list[f.hint]),
                            !.buffer_mem_pool = 0,
                            !.agg_buffer_pool = 0]
            ELSE IF deny = "table"
            THEN [m1 EXCEPT !.crashed = TRUE]
            ELSE [m1 EXCEPT !.table_mem_pool = @ + 1,
                            !.mem_tracker = MemTracker_consume(table_mem_pool_tracker, @, 1),
                            !.row_arena = InsertAt(@, m1.hint, "table"),
                            !.skip_list = SkipListInsertWithHint(
                                m1.skip_list, copy_row_in_memtable(src_row),
                                f.found, m1.hint),
                            !.buffer_mem_pool = 0,
                            !.agg_buffer_pool = 0]

\* The branch of the other key models.  _tuple_buf is the scratch block until
\* line 94 points it at a block of the table arena; that block is the one
\* InsertWithHint receives.
insert_agg(m, tuple, deny) ==
    IF deny = "buffer" /\ m.buffer_mem_pool_reserved = 0
    THEN [m EXCEPT !.crashed = TRUE]
    ELSE LET src_row == tuple_to_row(tuple)
             f == find_row(m, src_row)
             m1 == [m EXCEPT !.buffer_mem_pool = @ + 1,
                             !.buffer_mem_pool_reserved = 1,
                             !.mem_tracker = IF m.buffer_mem_pool_reserved = 0
                                           THEN MemTracker_consume(buffer_mem_pool_tracker, @, 1)
                                           ELSE @,
                             !.agg_buffer_pool = @ + NumAggObjects,
                             !.hint = f.hint]
         IN IF f.found
            THEN [m1 EXCEPT !.skip_list[f.hint] =
                                aggregate_two_row(src_row, m1.skip_list[f.hint]),
                            !.buffer_mem_pool = 0,
                            !.agg_buffer_pool = 0]
            ELSE IF deny = "table"
            THEN [m1 EXCEPT !.crashed = TRUE]
            ELSE [m1 EXCEPT !.table_mem_pool = @ + 1,
                            !.mem_tracker = MemTracker_consume(table_mem_pool_tracker, @, 1),
                            !.agg_object_pool = @ + m1.agg_buffer_pool,
                            !.row_arena = InsertAt(@, m1.hint, "table"),
                            !.skip_list = SkipListInsertWithHint(
                                m1.skip_list, copy_row_in_memtable(src_row),
                                f.found, m1.hint),
                            !.buffer_mem_pool = 0,
                            !.agg_buffer_pool = 0]

insert(m, tuple, deny) ==
    LET m1 == [m EXCEPT !.rows = @ + 1]
    IN IF keys_type = "DUP_KEYS"
       THEN insert_dup(m1, tuple, deny)
       ELSE insert_agg(m1, tuple, deny)

Denials == {"none", "buffer", "table"}

\* What a call of insert leaves behind.
Inserted(tuple, deny) ==
    LET m == insert(Mem, tuple, deny)
    IN /\ skip_list' = m.skip_list
       /\ row_arena' = m.row_arena
       /\ hint' = m.hint
       /\ rows' = m.rows
       /\ mem_tracker' = m.mem_tracker
       /\ buffer_mem_pool_reserved' = m.buffer_mem_pool_reserved
       /\ buffer_mem_pool' = m.buffer_mem_pool
       /\ table_mem_pool' = m.table_mem_pool
       /\ agg_buffer_pool' = m.agg_buffer_pool
       /\ agg_object_pool' = m.agg_object_pool
       /\ crashed' = m.crashed
       /\ hist' = IF m.crashed THEN hist ELSE Append(hist, tuple)
       /\ UNCHANGED <<keys_type, schema, has_sequence_col, sort_type, sort_col_num, flush_size,
                      memtable_flush_total, flush_ret, writer_calls, written,
                      it, yielded, utils_vars>>

\* insert is called only before the first flush, at most MaxRows times.
Insert ==
    /\ ~crashed
    /\ flush_ret = "NONE"
    /\ rows < MaxRows
    /\ \E tuple \in Tuples, deny \in Denials : Inserted(tuple, deny)

\* ------------------------------------------------------------------- flush
\* MemTable::Iterator over the skip list: a position and the row under it.
Iterator_seek_to_first == SkipListSeekToFirst

Iterator_valid(list, pos) == SkipListValid(list, pos)

Iterator_next(pos) == SkipListNext(pos)

\* get_current_row finalizes the row under the iterator, in place.
Iterator_get_current_row(list, pos) == agg_finalize_row(SkipListKey(list, pos))

\* The writer's fast path walks the memtable it is handed through
\* MemTable::Iterator and keeps every row it fetches.
RECURSIVE writer_scan(_, _, _)
writer_scan(list, pos, out) ==
    IF ~Iterator_valid(list, pos)
    THEN [skip_list |-> list, written |-> out]
    ELSE LET row == Iterator_get_current_row(list, pos)
         IN writer_scan([list EXCEPT ![pos] = row], Iterator_next(pos),
                        Append(out, row))

\* One call the rowset writer received: the operation and the status it returned.
Call(op, st) == [op |-> op, st |-> st]

\* Faulty variant of flush_loop: the row is handed to add_row as it lies in the
\* index and finalized afterwards.
RECURSIVE flush_loop_add_before_finalize(_, _, _, _, _, _)
flush_loop_add_before_finalize(list, pos, out, calls, add_fail, add_st) ==
    IF ~SkipListValid(list, pos)
    THEN [skip_list |-> list, written |-> out, calls |-> calls, st |-> "OK"]
    ELSE LET row == SkipListKey(list, pos)
             list1 == [list EXCEPT ![pos] = agg_finalize_row(row)]
         IN IF add_fail = pos
            THEN [skip_list |-> list, written |-> out,
                  calls |-> Append(calls, Call("add_row", add_st)), st |-> add_st]
            ELSE flush_loop_add_before_finalize(
                     list1, SkipListNext(pos), Append(out, row),
                     Append(calls, Call("add_row", "OK")), add_fail, add_st)

\* Faulty variant of flush_loop: when add_row fails, the rows after the failing
\* one are finalized before the error is returned.
flush_loop_finalize_rest(list, pos, out, calls, add_fail, add_st) ==
    IF ~SkipListValid(list, pos)
    THEN [skip_list |-> list, written |-> out, calls |-> calls, st |-> "OK"]
    ELSE IF add_fail # 0
    THEN [skip_list |-> [i \in 1..Len(list) |-> agg_finalize_row(list[i])],
          written |-> [i \in 1..(add_fail - 1) |-> agg_finalize_row(list[i])],
          calls |-> calls \o [i \in 1..add_fail |->
                                Call("add_row", IF i = add_fail THEN add_st ELSE "OK")],
          st |-> add_st]
    ELSE [skip_list |-> [i \in 1..Len(list) |-> agg_finalize_row(list[i])],
          written |-> [i \in 1..Len(list) |-> agg_finalize_row(list[i])],
          calls |-> calls \o [i \in 1..Len(list) |-> Call("add_row", "OK")],
          st |-> "OK"]

\* The fallback loop of flush.  add_fail is the position of the row whose
\* add_row returns the error add_st, 0 when every add_row succeeds.
RECURSIVE flush_loop(_, _, _, _, _, _)
flush_loop(list, pos, out, calls, add_fail, add_st) ==
    IF ~SkipListValid(list, pos)
    THEN [skip_list |-> list, written |-> out, calls |-> calls, st |-> "OK"]
    ELSE LET dst_row == agg_finalize_row(SkipListKey(list, pos))
             list1 == [list EXCEPT ![pos] = dst_row]
         IN IF add_fail = pos
            THEN [skip_list |-> list1, written |-> out,
                  calls |-> Append(calls, Call("add_row", add_st)), st |-> add_st]
            ELSE flush_loop(list1, SkipListNext(pos), Append(out, dst_row),
                            Append(calls, Call("add_row", "OK")), add_fail, add_st)

\* Faulty variant of flush: after the fallback loop the writer's flush() is not
\* called.
flush_no_writer_flush(list, st, add_fail, add_st, wf) ==
    IF st = "NOT_IMPLEMENTED"
    THEN LET loop == flush_loop(list, SkipListSeekToFirst, <<>>,
                                <<Call("flush_single_memtable", st)>>,
                                add_fail, add_st)
         IN IF loop.st # "OK"
            THEN [skip_list |-> loop.skip_list, written |-> loop.written,
                  calls |-> loop.calls, ret |-> loop.st,
                  counted |-> FALSE, fast |-> FALSE]
            ELSE [skip_list |-> loop.skip_list, written |-> loop.written,
                  calls |-> loop.calls, ret |-> "OK",
                  counted |-> TRUE, fast |-> FALSE]
    ELSE IF st # "OK"
    THEN [skip_list |-> list, written |-> <<>>,
          calls |-> <<Call("flush_single_memtable", st)>>, ret |-> st,
          counted |-> FALSE, fast |-> FALSE]
    ELSE LET scan == writer_scan(list, Iterator_seek_to_first, <<>>)
         IN [skip_list |-> scan.skip_list, written |-> scan.written,
             calls |-> <<Call("flush_single_memtable", st)>>, ret |-> "OK",
             counted |-> TRUE, fast |-> TRUE]

\* Faulty variant of flush: the fallback loop runs on every status of
\* flush_single_memtable that is not OK.
flush_streams_after_error(list, st, add_fail, add_st, wf) ==
    IF st # "OK"
    THEN LET loop == flush_loop(list, SkipListSeekToFirst, <<>>,
                                <<Call("flush_single_memtable", st)>>,
                                add_fail, add_st)
         IN IF loop.st # "OK"
            THEN [skip_list |-> loop.skip_list, written |-> loop.written,
                  calls |-> loop.calls, ret |-> loop.st,
                  counted |-> FALSE, fast |-> FALSE]
            ELSE [skip_list |-> loop.skip_list, written |-> loop.written,
                  calls |-> Append(loop.calls, Call("flush", wf)), ret |-> wf,
                  counted |-> wf = "OK", fast |-> FALSE]
    ELSE IF st # "OK"
    THEN [skip_list |-> list, written |-> <<>>,
          calls |-> <<Call("flush_single_memtable", st)>>, ret |-> st,
          counted |-> FALSE, fast |-> FALSE]
    ELSE LET scan == writer_scan(list, Iterator_seek_to_first, <<>>)
         IN [skip_list |-> scan.skip_list, written |-> scan.written,
             calls |-> <<Call("flush_single_memtable", st)>>, ret |-> "OK",
             counted |-> TRUE, fast |-> TRUE]

\* Faulty variant of flush: a memtable without rows is not handed to the writer.
flush_skip_empty(list, st, add_fail, add_st, wf) ==
    IF list = <<>>
    THEN [skip_list |-> list, written |-> <<>>, calls |-> <<>>, ret |-> "OK",
          counted |-> TRUE, fast |-> FALSE]
    ELSE
    IF st = "NOT_IMPLEMENTED"
    THEN LET loop == flush_loop(list, SkipListSeekToFirst, <<>>,
                                <<Call("flush_single_memtable", st)>>,
                                add_fail, add_st)
         IN IF loop.st # "OK"
            THEN [skip_list |-> loop.skip_list, written |-> loop.written,
                  calls |-> loop.calls, ret |-> loop.st,
                  counted |-> FALSE, fast |-> FALSE]
            ELSE [skip_list |-> loop.skip_list, written |-> loop.written,
                  calls |-> Append(loop.calls, Call("flush", wf)), ret |-> wf,
                  counted |-> wf = "OK", fast |-> FALSE]
    ELSE IF st # "OK"
    THEN [skip_list |-> list, written |-> <<>>,
          calls |-> <<Call("flush_single_memtable", st)>>, ret |-> st,
          counted |-> FALSE, fast |-> FALSE]
    ELSE LET scan == writer_scan(list, Iterator_seek_to_first, <<>>)
         IN [skip_list |-> scan.skip_list, written |-> scan.written,
             calls |-> <<Call("flush_single_memtable", st)>>, ret |-> "OK",
             counted |-> TRUE, fast |-> TRUE]

\* Faulty variant of flush: every writer error is reported as IO_ERROR.
flush_generic_error(list, st, add_fail, add_st, wf) ==
    IF st = "NOT_IMPLEMENTED"
    THEN LET loop == flush_loop(list, SkipListSeekToFirst, <<>>,
                                <<Call("flush_single_memtable", st)>>,
                                add_fail, add_st)
         IN IF loop.st # "OK"
            THEN [skip_list |-> loop.skip_list, written |-> loop.written,
                  calls |-> loop.calls, ret |-> "IO_ERROR",
                  counted |-> FALSE, fast |-> FALSE]
            ELSE [skip_list |-> loop.skip_list, written |-> loop.written,
                  calls |-> Append(loop.calls, Call("flush", wf)), ret |-> IF wf = "OK" THEN "OK" ELSE "IO_ERROR",
                  counted |-> wf = "OK", fast |-> FALSE]
    ELSE IF st # "OK"
    THEN [skip_list |-> list, written |-> <<>>,
          calls |-> <<Call("flush_single_memtable", st)>>, ret |-> "IO_ERROR",
          counted |-> FALSE, fast |-> FALSE]
    ELSE LET scan == writer_scan(list, Iterator_seek_to_first, <<>>)
         IN [skip_list |-> scan.skip_list, written |-> scan.written,
             calls |-> <<Call("flush_single_memtable", st)>>, ret |-> "OK",
             counted |-> TRUE, fast |-> TRUE]

\* Faulty variant of flush: a flush that succeeded empties the index.
flush_clears_index(list, st, add_fail, add_st, wf) ==
    IF st = "NOT_IMPLEMENTED"
    THEN LET loop == flush_loop(list, SkipListSeekToFirst, <<>>,
                                <<Call("flush_single_memtable", st)>>,
                                add_fail, add_st)
         IN IF loop.st # "OK"
            THEN [skip_list |-> loop.skip_list, written |-> loop.written,
                  calls |-> loop.calls, ret |-> loop.st,
                  counted |-> FALSE, fast |-> FALSE]
            ELSE [skip_list |-> IF wf = "OK" THEN <<>> ELSE loop.skip_list,
                  written |-> loop.written,
                  calls |-> Append(loop.calls, Call("flush", wf)), ret |-> wf,
                  counted |-> wf = "OK", fast |-> FALSE]
    ELSE IF st # "OK"
    THEN [skip_list |-> list, written |-> <<>>,
          calls |-> <<Call("flush_single_memtable", st)>>, ret |-> st,
          counted |-> FALSE, fast |-> FALSE]
    ELSE LET scan == writer_scan(list, Iterator_seek_to_first, <<>>)
         IN [skip_list |-> <<>>, written |-> scan.written,
             calls |-> <<Call("flush_single_memtable", st)>>, ret |-> "OK",
             counted |-> TRUE, fast |-> TRUE]

\* flush(): st is what flush_single_memtable returns, wf what the writer's
\* flush() returns.  counted: the flush metrics were incremented.
flush(list, st, add_fail, add_st, wf) ==
    IF st = "NOT_IMPLEMENTED"
    THEN LET loop == flush_loop(list, SkipListSeekToFirst, <<>>,
                                <<Call("flush_single_memtable", st)>>,
                                add_fail, add_st)
         IN IF loop.st # "OK"
            THEN [skip_list |-> loop.skip_list, written |-> loop.written,
                  calls |-> loop.calls, ret |-> loop.st,
                  counted |-> FALSE, fast |-> FALSE]
            ELSE [skip_list |-> loop.skip_list, written |-> loop.written,
                  calls |-> Append(loop.calls, Call("flush", wf)), ret |-> wf,
                  counted |-> wf = "OK", fast |-> FALSE]
    ELSE IF st # "OK"
    THEN [skip_list |-> list, written |-> <<>>,
          calls |-> <<Call("flush_single_memtable", st)>>, ret |-> st,
          counted |-> FALSE, fast |-> FALSE]
    ELSE LET scan == writer_scan(list, Iterator_seek_to_first, <<>>)
         IN [skip_list |-> scan.skip_list, written |-> scan.written,
             calls |-> <<Call("flush_single_memtable", st)>>, ret |-> "OK",
             counted |-> TRUE, fast |-> TRUE]

\* Faulty variant of close: the memtable is closed without being flushed.
close_without_flush(list, st, add_fail, add_st, wf) ==
    [skip_list |-> list, written |-> <<>>, calls |-> <<>>, ret |-> "OK",
     counted |-> FALSE, fast |-> FALSE]

close(list, st, add_fail, add_st, wf) == flush(list, st, add_fail, add_st, wf)

\* The errors a writer call can return.
WriterErrors == {"IO_ERROR", "DISK_FULL"}

SingleStatuses == {"OK", "NOT_IMPLEMENTED"} \cup WriterErrors

AddRowStatuses == WriterErrors

FlushStatuses == {"OK"} \cup WriterErrors

\* What the writer answers during one call of flush(): the status of
\* flush_single_memtable, the position and the error of the add_row that fails
\* (0: none), the status of the writer's flush().  The answer to a call that
\* is never made is held at one value.
WriterAnswers(list) ==
    { w \in [single : SingleStatuses, add_fail : 0..Len(list),
             add_row : AddRowStatuses, flush : FlushStatuses] :
        /\ w.single # "NOT_IMPLEMENTED" => (w.add_fail = 0 /\ w.flush = "OK")
        /\ w.add_fail = 0 => w.add_row = "IO_ERROR"
        /\ w.add_fail # 0 => w.flush = "OK" }

\* The cells of the index that hold an aggregate object not finalized yet.
ObjCells(list) ==
    { <<i, cid>> \in (1..Len(list)) \X (1..num_columns) :
        schema[cid] = "BITMAP_UNION" /\ list[i][cid].rep = "obj" }

\* What a call of flush() or close() leaves behind.  The fast path reports the
\* bytes it wrote through its out parameter, one unit per row here.  Finalizing
\* an aggregate object serializes it into a block of the table arena, the pool
\* agg_finalize_row is handed.
Flushed(f) ==
    /\ skip_list' = f.skip_list
    /\ LET finalized == Cardinality(ObjCells(skip_list)) - Cardinality(ObjCells(f.skip_list))
       IN /\ table_mem_pool' = table_mem_pool + finalized
          /\ mem_tracker' = MemTracker_consume(table_mem_pool_tracker, mem_tracker, finalized)
    /\ written' = written \o f.written
    /\ writer_calls' = writer_calls \o f.calls
    /\ flush_ret' = f.ret
    /\ flush_size' = IF f.fast THEN Len(f.written) ELSE flush_size
    /\ memtable_flush_total' = memtable_flush_total + (IF f.counted THEN 1 ELSE 0)
    /\ UNCHANGED <<keys_type, schema, has_sequence_col, sort_type, sort_col_num,
                   row_arena, hint, rows, buffer_mem_pool_reserved,
                   buffer_mem_pool, agg_buffer_pool, agg_object_pool, crashed, hist,
                   it, yielded, utils_vars>>

\* The owner flushes a memtable once.
Flush ==
    /\ ~crashed
    /\ flush_ret = "NONE"
    /\ \E w \in WriterAnswers(skip_list) :
        Flushed(flush(skip_list, w.single, w.add_fail, w.add_row, w.flush))

Close ==
    /\ ~crashed
    /\ flush_ret = "NONE"
    /\ \E w \in WriterAnswers(skip_list) :
        Flushed(close(skip_list, w.single, w.add_fail, w.add_row, w.flush))

Constructed(configs) ==
    /\ \E c \in configs :
        /\ keys_type = c.keys_type
        /\ schema = c.schema
        /\ has_sequence_col = c.has_sequence_col
        /\ sort_type = c.sort_type
        /\ sort_col_num = c.sort_col_num
    /\ skip_list = <<>>
    /\ row_arena = <<>>
    /\ hint = 0
    /\ rows = 0
    /\ mem_tracker = 0
    /\ buffer_mem_pool_reserved = 0
    /\ buffer_mem_pool = 0
    /\ table_mem_pool = 0
    /\ agg_buffer_pool = 0
    /\ agg_object_pool = 0
    /\ crashed = FALSE
    /\ flush_size = 0
    /\ memtable_flush_total = 0
    /\ flush_ret = "NONE"
    /\ writer_calls = <<>>
    /\ written = <<>>
    /\ hist = <<>>
    /\ it = 0
    /\ yielded = <<>>

\* No validation function is called where a memtable is exercised.
NoValidation ==
    /\ value_str = <<>>
    /\ precision = 0
    /\ frac = 0
    /\ ret = "NONE"

InitOf(configs) == Constructed(configs) /\ NoValidation

Init == InitOf(Configs)

InitSeq == InitOf(SeqConfigs)

InitMerge == InitOf(MergeConfigs)

\* The tablets close() is compared with flush() on: rows without and with
\* aggregate objects.
CloseConfigs == { c \in Configs : c.schema[2] \in {"NONE", "BITMAP_UNION"} }

InitClose == InitOf(CloseConfigs)

Next == Insert \/ Flush \/ Close

\* ------------------------------------------------------ Z-order tablets
\* The rows loaded into a Z-order tablet: key columns (x, y).
ZOrderTuples == { <<0, 0>>, <<3, 0>>, <<0, 3>>, <<3, 3>>, <<1, 1>> }

\* Each of them is loaded at most once, in any order.
MaxZOrderRows == Cardinality(ZOrderTuples)

InsertZOrder ==
    /\ ~crashed
    /\ flush_ret = "NONE"
    /\ rows < MaxZOrderRows
    /\ \E tuple \in ZOrderTuples, deny \in Denials :
        /\ \A i \in 1..Len(hist) : hist[i] # tuple
        /\ Inserted(tuple, deny)

InitZOrder == InitOf(ZOrderConfigs)

NextZOrder == InsertZOrder \/ Flush \/ Close

\* ------------------------------------------------- close after flush or close
\* Tablets whose rows hold no aggregate object: finalizing such a row a second
\* time reads plain cells.
RecloseConfigs == { c \in Configs : c.schema[2] \in {"NONE", "SUM"} }

\* The calls of flush() made so far, directly or through close(): each of them
\* calls flush_single_memtable once.
FlushRuns ==
    Cardinality({ i \in 1..Len(writer_calls) :
                    writer_calls[i].op = "flush_single_memtable" })

\* The owner calls close() on a memtable that was flushed or closed before.
CloseAgain ==
    /\ ~crashed
    /\ flush_ret # "NONE"
    /\ FlushRuns < MaxFlushRuns
    /\ \E w \in WriterAnswers(skip_list) :
        Flushed(close(skip_list, w.single, w.add_fail, w.add_row, w.flush))

InitReclose == InitOf(RecloseConfigs)

NextReclose == Insert \/ Flush \/ Close \/ CloseAgain

\* The same tablets, with an owner that calls insert before or after flush or
\* close: insert has no test for it.
InsertAnyTime ==
    /\ ~crashed
    /\ rows < MaxRows
    /\ \E tuple \in Tuples, deny \in Denials : Inserted(tuple, deny)

InitLate == InitOf(RecloseConfigs)

NextLate == InsertAnyTime \/ Flush \/ Close

\* ------------------------------------------------------ MemTable::Iterator
\* Tablets a memtable is scanned for: with and without aggregate objects.
IterConfigs == { c \in Configs : c.schema[2] \in {"NONE", "BITMAP_UNION"} }

\* What no method of the iterator touches.
IterFrame ==
    UNCHANGED <<keys_type, schema, has_sequence_col, sort_type, sort_col_num,
                row_arena, hint, rows, buffer_mem_pool_reserved, buffer_mem_pool,
                agg_buffer_pool, agg_object_pool, crashed, flush_size,
                memtable_flush_total, flush_ret, writer_calls, written, hist,
                utils_vars>>

\* The positions get_current_row was called at.
Fetched == { yielded[i].pos : i \in 1..Len(yielded) }

\* The rows are inserted before the memtable is handed over for the scan.
InsertBeforeScan ==
    /\ it = 0
    /\ Insert

\* Iterator(memtable) followed by seek_to_first(): one scan per memtable.
IterSeekToFirst ==
    /\ ~crashed
    /\ it = 0
    /\ it' = Iterator_seek_to_first
    /\ UNCHANGED <<skip_list, table_mem_pool, mem_tracker, yielded>>
    /\ IterFrame

\* valid() answers from the position and changes nothing.
IterValid ==
    /\ it # 0
    /\ Iterator_valid(skip_list, it) \in BOOLEAN
    /\ UNCHANGED <<it, skip_list, table_mem_pool, mem_tracker, yielded>>
    /\ IterFrame

\* Faulty variant of IterNext: next() finalizes the row it leaves.
IterNextEager ==
    /\ it # 0
    /\ Iterator_valid(skip_list, it)
    /\ it' = Iterator_next(it)
    /\ skip_list' = [skip_list EXCEPT ![it] = agg_finalize_row(skip_list[it])]
    /\ UNCHANGED <<table_mem_pool, mem_tracker, yielded>>
    /\ IterFrame

\* next(), called at a valid position.
IterNext ==
    /\ it # 0
    /\ Iterator_valid(skip_list, it)
    /\ it' = Iterator_next(it)
    /\ UNCHANGED <<skip_list, table_mem_pool, mem_tracker, yielded>>
    /\ IterFrame

\* get_current_row(), called once at a valid position: the row is finalized
\* where it lies, with the table arena for what finalize allocates, and
\* returned.
IterGetCurrentRow ==
    /\ it # 0
    /\ Iterator_valid(skip_list, it)
    /\ it \notin Fetched
    /\ LET dst_row == Iterator_get_current_row(skip_list, it)
           list1 == [skip_list EXCEPT ![it] = dst_row]
           finalized == Cardinality(ObjCells(skip_list)) - Cardinality(ObjCells(list1))
       IN /\ skip_list' = list1
          /\ yielded' = Append(yielded, [pos |-> it, row |-> dst_row])
          /\ table_mem_pool' = table_mem_pool + finalized
          /\ mem_tracker' = MemTracker_consume(table_mem_pool_tracker, mem_tracker, finalized)
    /\ UNCHANGED it
    /\ IterFrame

InitIter == InitOf(IterConfigs)

NextIter ==
    InsertBeforeScan \/ IterSeekToFirst \/ IterValid \/ IterNext \/ IterGetCurrentRow

\* ------------------------------------------- utils.cpp: validation of text
\* A text is the sequence of its characters.
Digits == {"0", "1", "2", "3", "4", "5", "6", "7", "8", "9"}

\* \d of std::regex: a decimal digit.
IsDigit(c) == c \in Digits

\* . of std::regex: any character but a line terminator.
IsAnyChar(c) == c \notin {"\n", "\r"}

\* The texts of at most n characters of S.
TextsUpTo(S, n) == UNION { [1..k -> S] : k \in 0..n }

\* string::npos, and string::find(c): the index, from 0, of the first c.
npos == -1

find(s, c) ==
    IF \E i \in 1..Len(s) : s[i] = c
    THEN (CHOOSE i \in 1..Len(s) : s[i] = c /\ \A j \in 1..(i - 1) : s[j] # c) - 1
    ELSE npos

\* std::regex_match(value_str, "-?\\d+(.\\d+)?"): the whole text is an optional
\* '-', digits and, optionally, one character of any kind and digits.
decimal_pattern_match(s) ==
    LET from == IF s # <<>> /\ s[1] = "-" THEN 2 ELSE 1
    IN \E i \in from..Len(s) :
          /\ \A k \in from..i : IsDigit(s[k])
          /\ \/ i = Len(s)
             \/ /\ i + 2 <= Len(s)
                /\ IsAnyChar(s[i + 1])
                /\ \A k \in (i + 2)..Len(s) : IsDigit(s[k])

\* valid_decimal.  precision - frac is a uint32_t difference; frac is at most
\* precision on every call made here, so it does not wrap.
valid_decimal(str, prec, fr) ==
    IF ~decimal_pattern_match(str)
    THEN FALSE
    ELSE LET number_length == IF str[1] = "-" THEN Len(str) - 1 ELSE Len(str)
             point_pos == find(str, ".")
             integer_len == IF point_pos = npos THEN number_length ELSE point_pos
             fractional_len == IF point_pos = npos THEN 0
                               ELSE number_length - point_pos - 1
         IN integer_len <= prec - fr /\ fractional_len <= fr

\* Length of the texts handed to valid_decimal, and the largest precision.
MaxDecimalLen == 5

MaxPrecision == 3

\* Their characters: the sign, the point, a digit and a character that is none
\* of them.
DecimalChars == {"-", ".", "1", "a"}

Answer(b) == IF b THEN "TRUE" ELSE "FALSE"

\* valid_decimal is called on a text for a column DECIMAL(precision, frac).
ValidDecimal ==
    /\ ret = "NONE"
    /\ ret' = Answer(valid_decimal(value_str, precision, frac))
    /\ UNCHANGED <<memtable_vars, value_str, precision, frac>>

\* No memtable operation takes part: the memtable stays as constructed.
InitDecimal ==
    /\ Constructed(SeqConfigs)
    /\ value_str \in TextsUpTo(DecimalChars, MaxDecimalLen)
    /\ precision \in 0..MaxPrecision
    /\ frac \in 0..precision
    /\ ret = "NONE"

NextDecimal == ValidDecimal

\* strtol(text, nullptr, 10) of a text of digits.
DigitValue(c) ==
    CASE c = "0" -> 0 [] c = "1" -> 1 [] c = "2" -> 2 [] c = "3" -> 3
      [] c = "4" -> 4 [] c = "5" -> 5 [] c = "6" -> 6 [] c = "7" -> 7
      [] c = "8" -> 8 [] c = "9" -> 9

strtol(s) ==
    LET value[i \in 0..Len(s)] ==
            IF i = 0 THEN 0 ELSE value[i - 1] * 10 + DigitValue(s[i])
    IN value[Len(s)]

\* The characters of s at the positions from..to are digits.
AllDigits(s, from, to) == \A k \in from..to : IsDigit(s[k])

\* std::regex_match(value_str, datetime_pattern): whether the whole text is
\* four digits, '-', two digits, '-', two digits, any number of spaces and,
\* optionally, two digits, ':', two digits, ':', two digits; and the groups
\* what[2], what[3] and what[4] .. what[7] of the match.
datetime_pattern_match(s) ==
    LET date == /\ Len(s) >= 10
                /\ AllDigits(s, 1, 4) /\ s[5] = "-"
                /\ AllDigits(s, 6, 7) /\ s[8] = "-"
                /\ AllDigits(s, 9, 10)
        t == 10 + Cardinality({ i \in 11..Len(s) : \A k \in 11..i : s[k] = " " })
        time == /\ Len(s) = t + 8
                /\ AllDigits(s, t + 1, t + 2) /\ s[t + 3] = ":"
                /\ AllDigits(s, t + 4, t + 5) /\ s[t + 6] = ":"
                /\ AllDigits(s, t + 7, t + 8)
    IN IF date /\ Len(s) = t
       THEN [matched |-> TRUE, what2 |-> SubSeq(s, 6, 7), what3 |-> SubSeq(s, 9, 10),
             what4 |-> <<>>, what5 |-> <<>>, what6 |-> <<>>, what7 |-> <<>>]
       ELSE IF date /\ time
       THEN [matched |-> TRUE, what2 |-> SubSeq(s, 6, 7), what3 |-> SubSeq(s, 9, 10),
             what4 |-> SubSeq(s, t + 1, t + 8), what5 |-> SubSeq(s, t + 1, t + 2),
             what6 |-> SubSeq(s, t + 4, t + 5), what7 |-> SubSeq(s, t + 7, t + 8)]
       ELSE [matched |-> FALSE, what2 |-> <<>>, what3 |-> <<>>,
             what4 |-> <<>>, what5 |-> <<>>, what6 |-> <<>>, what7 |-> <<>>]

\* Faulty variant of valid_datetime: the fields of the time are not looked at.
valid_datetime_date_only(str) ==
    LET what == datetime_pattern_match(str)
    IN IF what.matched
       THEN LET month == strtol(what.what2)
                day == strtol(what.what3)
            IN IF month < 1 \/ month > 12 THEN FALSE
               ELSE IF day < 1 \/ day > 31 THEN FALSE
               ELSE TRUE
       ELSE FALSE

valid_datetime(str) ==
    LET what == datetime_pattern_match(str)
    IN IF what.matched
       THEN LET month == strtol(what.what2)
                day == strtol(what.what3)
            IN IF month < 1 \/ month > 12 THEN FALSE
               ELSE IF day < 1 \/ day > 31 THEN FALSE
               ELSE IF Len(what.what4) # 0
               THEN LET hour == strtol(what.what5)
                        minute == strtol(what.what6)
                        second == strtol(what.what7)
                    IN IF hour < 0 \/ hour > 23 THEN FALSE
                       ELSE IF minute < 0 \/ minute > 59 THEN FALSE
                       ELSE IF second < 0 \/ second > 59 THEN FALSE
                       ELSE TRUE
               ELSE TRUE
       ELSE FALSE

\* The texts handed to valid_datetime are put together from a year, a month
\* and a day with a separator, spaces or another character, a time or none,
\* and an end; each part comes well-formed and not, in range and out of it.
MaxSpaces == 2

Years == { <<"2", "0", "2", "1">>, <<"0", "0", "0", "0">>, <<"2", "0", "2">> }

DateSeparators == { <<"-">>, <<"/">> }

Months == { <<"0", "0">>, <<"0", "1">>, <<"1", "2">>, <<"1", "3">> }

Days == { <<"0", "0">>, <<"0", "1">>, <<"3", "1">>, <<"3", "2">> }

Spaces(n) == [i \in 1..n |-> " "]

Gaps == { Spaces(n) : n \in 0..MaxSpaces } \cup { <<"T">> }

Hours == { <<"0", "0">>, <<"2", "3">>, <<"2", "4">> }

Minutes == { <<"5", "9">>, <<"6", "0">> }

Seconds == { <<"5", "9">>, <<"6", "0">> }

TimeSeparators == { <<":">>, <<"-">> }

Times ==
    { <<>>, <<"1", "2", ":", "0", "0">> }
        \cup { h \o c \o m \o c \o sec :
                  h \in Hours, m \in Minutes, sec \in Seconds, c \in TimeSeparators }

Ends == { <<>>, <<" ">> }

DatetimeTexts ==
    { y \o c \o m \o c \o d \o g \o t \o e :
        y \in Years, c \in DateSeparators, m \in Months, d \in Days,
        g \in Gaps, t \in Times, e \in Ends }

\* valid_datetime is called on a text.
ValidDatetime ==
    /\ ret = "NONE"
    /\ ret' = Answer(valid_datetime(value_str))
    /\ UNCHANGED <<memtable_vars, value_str, precision, frac>>

InitDatetime ==
    /\ Constructed(SeqConfigs)
    /\ value_str \in DatetimeTexts
    /\ precision = 0
    /\ frac = 0
    /\ ret = "NONE"

NextDatetime == ValidDatetime

\* ------------------------------------------------------- reference notions
\* The key of a row or tuple: its cells in the key columns.
KeyColumns == { cid \in 1..num_columns : schema[cid] = "KEY" }

KeyOf(row) == [cid \in KeyColumns |-> row[cid]]

\* The entries of seq whose key is key, in the order of seq.
WithKey(seq, key) ==
    LET Test(x) == KeyOf(x) = key
    IN SelectSeq(seq, Test)

\* The row a lone tuple is flushed as.
RowOf(tuple) == agg_finalize_row(tuple_to_row(tuple))

RowsOf(tuples) == [i \in 1..Len(tuples) |-> RowOf(tuples[i])]

NonDecreasing(seq) ==
    \A i \in 1..(Len(seq) - 1) : row_comparator(seq[i], seq[i + 1]) <= 0

NoEqualKeys(seq) ==
    \A i, j \in 1..Len(seq) : i # j => row_comparator(seq[i], seq[j]) # 0

FlushedOK == flush_ret = "OK"

\* Some key was inserted twice, with different values.
KeyRepeated ==
    \E i, j \in 1..Len(hist) :
        i < j /\ KeyOf(hist[i]) = KeyOf(hist[j]) /\ hist[i] # hist[j]

\* --------------------------------------------------------------- C1
\* C1: the rows a flush or an iterator traversal hands to the writer come in
\* non-decreasing comparator order: compare(a, b) <= 0 for consecutive a, b.
C1_Ordering == NonDecreasing(written) /\ NonDecreasing(skip_list)

\* Keys inserted in descending order came out ascending on the fallback path.
C1_Witness ==
    /\ Len(hist) >= 2
    /\ compare_row(hist[1], hist[2]) > 0
    /\ Len(written) >= 2
    /\ compare_row(written[1], written[2]) < 0
    /\ "add_row" \in { writer_calls[i].op : i \in 1..Len(writer_calls) }

\* --------------------------------------------------------------- C2
\* C2: under AGG_KEYS and UNIQUE_KEYS no two rows of the index, and no two
\* rows of the flushed output, compare equal on the key.
C2_KeyUnique ==
    keys_type # "DUP_KEYS" => NoEqualKeys(skip_list) /\ NoEqualKeys(written)

C2_Witness ==
    /\ keys_type # "DUP_KEYS"
    /\ KeyRepeated
    /\ FlushedOK
    /\ Len(written) = 1

\* --------------------------------------------------------------- C3
\* C3: under DUP_KEYS the flushed output has as many rows as insert calls
\* completed, and every key occurs in it as often as it was inserted.
C3_DupPreserved ==
    (keys_type = "DUP_KEYS" /\ FlushedOK) =>
        /\ Len(written) = Len(hist)
        /\ \A i \in 1..Len(hist) :
              Len(WithKey(written, KeyOf(hist[i]))) = Len(WithKey(hist, KeyOf(hist[i])))

C3_Witness ==
    /\ keys_type = "DUP_KEYS"
    /\ FlushedOK
    /\ Len(hist) = 3
    /\ KeyOf(hist[1]) = KeyOf(hist[3])
    /\ Len(written) = 3

\* --------------------------------------------------------------- C4
\* C4: under DUP_KEYS the flushed rows of one key are the rows inserted with
\* that key, in the order of their insertion.
C4_DupStable ==
    (keys_type = "DUP_KEYS" /\ FlushedOK) =>
        \A i \in 1..Len(hist) :
            WithKey(written, KeyOf(hist[i])) = WithKey(RowsOf(hist), KeyOf(hist[i]))

\* One key inserted with values 1, 0, 1 is flushed as 1, 0, 1.
C4_Witness ==
    /\ keys_type = "DUP_KEYS"
    /\ FlushedOK
    /\ Len(hist) = 3
    /\ \A i \in 1..3 : KeyOf(hist[i]) = KeyOf(hist[1])
    /\ hist[1] # hist[2] /\ hist[2] # hist[3]
    /\ written = RowsOf(hist)

\* --------------------------------------------------------------- C5
RECURSIVE SumOf(_)
SumOf(cells) == IF cells = <<>> THEN 0 ELSE Head(cells) + SumOf(Tail(cells))

CellSet(cells) == { cells[i] : i \in 1..Len(cells) }

\* The flushed value of a column whose inserted cells were cells, in order.
Folded(method, cells) ==
    CASE method = "SUM" -> SumOf(cells)
      [] method = "MIN" -> CHOOSE m \in CellSet(cells) : \A x \in CellSet(cells) : m <= x
      [] method = "MAX" -> CHOOSE m \in CellSet(cells) : \A x \in CellSet(cells) : m >= x
      [] method = "BITMAP_UNION" ->
            [rep |-> "slice", bits |-> UNION { c.bits : c \in CellSet(cells) }]
      [] OTHER -> cells[Len(cells)]

\* The cells inserted in column cid with the key of row, in arrival order.
Arrived(row, cid) ==
    LET same == WithKey(hist, KeyOf(row))
    IN [i \in 1..Len(same) |-> same[i][cid]]

EveryKeyFlushed ==
    \A i \in 1..Len(hist) : \E j \in 1..Len(written) : KeyOf(written[j]) = KeyOf(hist[i])

\* C5: under AGG_KEYS without a sequence column every inserted key is flushed,
\* and a flushed row holds in each non-key column the column's aggregate of
\* the cells inserted with its key, taken in arrival order.
C5_AggFold ==
    (keys_type = "AGG_KEYS" /\ ~has_sequence_col /\ FlushedOK) =>
        /\ EveryKeyFlushed
        /\ \A j \in 1..Len(written) : \A cid \in (1..num_columns) \ KeyColumns :
              written[j][cid] = Folded(schema[cid], Arrived(written[j], cid))

C5_Witness ==
    /\ keys_type = "AGG_KEYS"
    /\ schema = <<"KEY", "SUM">>
    /\ FlushedOK
    /\ Len(hist) = 3
    /\ Len(written) = 1
    /\ written[1][2] = 2

\* --------------------------------------------------------------- C6
RECURSIVE Replay(_)
\* The memtable after the insert calls of tuples, none of them denied.
Replay(tuples) ==
    IF tuples = <<>> THEN EmptyMem
    ELSE insert(Replay(SubSeq(tuples, 1, Len(tuples) - 1)), tuples[Len(tuples)], "none")

\* What flush_single_memtable answered in the flush that took place.
FlushPath ==
    IF writer_calls[Len(writer_calls)].op = "flush" THEN "NOT_IMPLEMENTED" ELSE "OK"

SymmetricMethods == {"SUM", "MIN", "MAX", "BITMAP_UNION"}

SymmetricSchema ==
    \A cid \in (1..num_columns) \ KeyColumns : schema[cid] \in SymmetricMethods

\* C6: under AGG_KEYS with only sum, min, max and bitmap-union columns, the
\* inserted tuples taken in any other order flush to the same rows.
C6_Commutative ==
    (keys_type = "AGG_KEYS" /\ SymmetricSchema /\ FlushedOK) =>
        \A p \in Permutations(1..Len(hist)) :
            flush(Replay([i \in 1..Len(hist) |-> hist[p[i]]]).skip_list,
                  FlushPath, 0, "OK", "OK").written = written

C6_Witness ==
    /\ keys_type = "AGG_KEYS"
    /\ SymmetricSchema
    /\ FlushedOK
    /\ Len(hist) = 3
    /\ KeyRepeated
    /\ Len(written) = 2

\* --------------------------------------------------------------- C7
\* Position in hist of the last tuple with the key of row.
LastArrival(row) ==
    CHOOSE i \in 1..Len(hist) :
        /\ KeyOf(hist[i]) = KeyOf(row)
        /\ \A j \in 1..Len(hist) : KeyOf(hist[j]) = KeyOf(row) => j <= i

\* C7: under UNIQUE_KEYS without a sequence column every inserted key is
\* flushed, as the last row inserted with that key.
C7_LatestWins ==
    (keys_type = "UNIQUE_KEYS" /\ ~has_sequence_col /\ FlushedOK) =>
        /\ EveryKeyFlushed
        /\ \A j \in 1..Len(written) : written[j] = RowOf(hist[LastArrival(written[j])])

C7_Witness ==
    /\ keys_type = "UNIQUE_KEYS"
    /\ ~has_sequence_col
    /\ FlushedOK
    /\ Len(hist) = 3
    /\ \A i \in 1..3 : KeyOf(hist[i]) = KeyOf(hist[1])
    /\ hist[1] = hist[3] /\ hist[2] # hist[3]
    /\ written = <<RowOf(hist[3])>>

\* --------------------------------------------------------------- C8
\* Position in hist of the tuple that wins the key of row: the largest
\* sequence value, and the last arrival among those that carry it.
SeqWinner(row) ==
    CHOOSE i \in 1..Len(hist) :
        /\ KeyOf(hist[i]) = KeyOf(row)
        /\ \A j \in 1..Len(hist) : KeyOf(hist[j]) = KeyOf(row) =>
              \/ hist[j][sequence_col_idx] < hist[i][sequence_col_idx]
              \/ hist[j][sequence_col_idx] = hist[i][sequence_col_idx] /\ j <= i

\* C8: under UNIQUE_KEYS with a sequence column every inserted key is flushed,
\* as the row of the largest sequence value inserted with that key, the last
\* to arrive among equals.
C8_SequenceWins ==
    (keys_type = "UNIQUE_KEYS" /\ has_sequence_col /\ FlushedOK) =>
        /\ EveryKeyFlushed
        /\ \A j \in 1..Len(written) : written[j] = RowOf(hist[SeqWinner(written[j])])

\* Sequence values 1, 0, 1 on one key: the third row wins over the first.
C8_Witness ==
    /\ keys_type = "UNIQUE_KEYS"
    /\ has_sequence_col
    /\ FlushedOK
    /\ Len(hist) = 3
    /\ \A i \in 1..3 : KeyOf(hist[i]) = KeyOf(hist[1])
    /\ hist[1][3] = 1 /\ hist[2][3] = 0 /\ hist[3][3] = 1
    /\ hist[1][2] # hist[3][2]
    /\ written = <<RowOf(hist[3])>>

\* --------------------------------------------------------------- C9
\* C9: _rows is the number of insert calls that completed.
C9_RowsCountSuccessful == rows = Len(hist)

\* -------------------------------------------------------------- C10
\* C10: an insert that fails on a denied allocation leaves the index and
\* _rows as they were before the call.
C10_FailedInsertNoEffect ==
    [][(~crashed /\ crashed') => (skip_list' = skip_list /\ rows' = rows)]_vars

\* -------------------------------------------------------------- C11
\* C11: insert answers a denied allocation with MemoryLimitExceeded and never
\* uses the denied block as a row.  A memtable is crashed exactly when an insert
\* has written a row through a block the tracker denied.
C11_DeniedBlockNeverUsed == ~crashed

\* -------------------------------------------------------------- C12
\* An insert that merged into a row the index already held has returned.
MergedInsertReturned ==
    /\ ~crashed
    /\ keys_type # "DUP_KEYS"
    /\ flush_ret = "NONE"
    /\ KeyRepeated
    /\ Len(skip_list) < Len(hist)

\* Inserts merged into rows of the index, whether or not a flush followed.
MergedInsertReturnedBefore ==
    /\ ~crashed
    /\ keys_type # "DUP_KEYS"
    /\ KeyRepeated
    /\ Len(skip_list) < Len(hist)

\* C12: once an insert has returned, in every key model and on the found and the
\* not-found path alike, nothing allocated from the scratch arena is live.
C12_BufferArenaEmpty == ~crashed => buffer_mem_pool = 0

\* A found-path and a not-found-path insert have both returned.
C12_Witness ==
    /\ MergedInsertReturned
    /\ Len(skip_list) >= 2
    /\ buffer_mem_pool = 0

C14_IndexRowsInTableArena ==
    /\ Len(row_arena) = Len(skip_list)
    /\ \A i \in 1..Len(row_arena) : row_arena[i] = "table"

\* Rows went in on the not-found path and the scratch arena that held their
\* encoding was reset after them.
C14_Witness ==
    /\ ~crashed
    /\ keys_type # "DUP_KEYS"
    /\ Len(skip_list) >= 2
    /\ Len(row_arena) = Len(skip_list)
    /\ buffer_mem_pool = 0
    /\ table_mem_pool = Len(skip_list)

\* ----------------------------------------------------- flush bookkeeping
\* The operations the writer was asked for, in order.
Ops == [i \in 1..Len(writer_calls) |-> writer_calls[i].op]

FlushReturned == flush_ret # "NONE"

\* What flush_single_memtable answered.
SingleAnswer == writer_calls[1].st

\* Every writer call after flush_single_memtable succeeded.
LaterCallsOK == \A i \in 2..Len(writer_calls) : writer_calls[i].st = "OK"

\* The calls that end the writer's segment: flush(), or a flush_single_memtable
\* that did the whole job or failed at it.
CompletionCalls ==
    { i \in 1..Len(writer_calls) :
        \/ writer_calls[i].op = "flush"
        \/ /\ writer_calls[i].op = "flush_single_memtable"
           /\ writer_calls[i].st # "NOT_IMPLEMENTED" }

\* -------------------------------------------------------------- C15
\* C15: when flush_single_memtable answers NotImplemented, flush hands every
\* row of the index to add_row in index order, then calls the writer's flush()
\* exactly once and returns OK if those calls succeed; NotImplemented is never
\* what the caller gets.
C15_FallbackStreams ==
    (FlushReturned /\ SingleAnswer = "NOT_IMPLEMENTED") =>
        /\ flush_ret # "NOT_IMPLEMENTED"
        /\ LaterCallsOK =>
            /\ Ops = <<"flush_single_memtable">>
                      \o [i \in 1..Len(skip_list) |-> "add_row"] \o <<"flush">>
            /\ written = skip_list
            /\ flush_ret = "OK"

C15_Witness ==
    /\ FlushReturned
    /\ SingleAnswer = "NOT_IMPLEMENTED"
    /\ LaterCallsOK
    /\ Len(skip_list) >= 2
    /\ Len(written) = Len(skip_list)
    /\ flush_ret = "OK"

\* -------------------------------------------------------------- C16
\* C16: when flush_single_memtable answers anything but NotImplemented, flush
\* calls neither add_row nor the writer's flush().
C16_NoStreamingOtherwise ==
    (FlushReturned /\ SingleAnswer # "NOT_IMPLEMENTED") =>
        Ops = <<"flush_single_memtable">>

\* flush_single_memtable failed on a memtable that holds rows.
C16_Witness ==
    /\ FlushReturned
    /\ SingleAnswer \in WriterErrors
    /\ Len(skip_list) >= 2
    /\ Ops = <<"flush_single_memtable">>

\* -------------------------------------------------------------- C17
\* C17: flushing a memtable no row was inserted into makes no add_row call and
\* exactly one completion call, and returns OK when the writer does.
C17_EmptyFlush ==
    (FlushReturned /\ rows = 0) =>
        /\ \A i \in 1..Len(writer_calls) : writer_calls[i].op # "add_row"
        /\ Cardinality(CompletionCalls) = 1
        /\ (SingleAnswer \in {"OK", "NOT_IMPLEMENTED"} /\ LaterCallsOK)
               => flush_ret = "OK"

\* The empty memtable went down the fallback path.
C17_Witness ==
    /\ rows = 0
    /\ Ops = <<"flush_single_memtable", "flush">>
    /\ flush_ret = "OK"

\* -------------------------------------------------------------- C18
\* C18: an error a writer call returns during flush (flush_single_memtable other
\* than NotImplemented, add_row, the writer's flush()) is what flush returns.
C18_ErrorUnchanged ==
    FlushReturned =>
        \A i \in 1..Len(writer_calls) :
            writer_calls[i].st \notin {"OK", "NOT_IMPLEMENTED"}
                => flush_ret = writer_calls[i].st

\* The second add_row failed with the error that is not IO_ERROR.
C18_Witness ==
    /\ FlushReturned
    /\ Ops = <<"flush_single_memtable", "add_row", "add_row">>
    /\ writer_calls[3].st = "DISK_FULL"
    /\ flush_ret = "DISK_FULL"

\* -------------------------------------------------------------- C19
\* A step in which a call of close() runs and returns.
CloseReturns == flush_ret = "NONE" /\ flush_ret' # "NONE" /\ Close

C20_CloseIdempotent ==
    [][CloseAgain => /\ writer_calls' = writer_calls
                     /\ written' = written
                     /\ skip_list' = skip_list
                     /\ flush_size' = flush_size
                     /\ memtable_flush_total' = memtable_flush_total]_vars

\* -------------------------------------------------------------- C21
\* C21: close() after a flush() that failed with an error returns that same
\* error, whatever the writer answers to the calls the new attempt makes.
C21_CloseReraises ==
    [][(flush_ret \in WriterErrors /\ CloseAgain) => flush_ret' = flush_ret]_vars

\* -------------------------------------------------------------- C22
\* The lifecycle state of the specification, read off the status of the last
\* flush() or close(): Open before the first, Closed after a successful one,
\* Flushing after one that failed.
Lifecycle ==
    IF flush_ret = "NONE" THEN "Open"
    ELSE IF flush_ret = "OK" THEN "Closed" ELSE "Flushing"

\* C22: the lifecycle moves forward from Open and never back to it, and an
\* insert takes effect only in Open: outside Open it changes neither the index
\* nor _rows.
C22_LifecycleForward ==
    [][/\ Lifecycle # "Open" => Lifecycle' # "Open"
       /\ (Lifecycle # "Open" /\ InsertAnyTime)
             => (skip_list' = skip_list /\ rows' = rows)]_vars

\* -------------------------------------------------------------- C23
\* C23: after a successful flush, on the fast path and on the fallback path
\* alike, _flush_size is the byte count of that flush (one unit per row
\* written).
C23_FlushSizeRecorded == FlushedOK => flush_size = Len(written)

\* -------------------------------------------------------------- C24
\* C24: on a tablet whose sort type is Z-order the rows come out in the order of
\* the Z-order comparator over the first sort_col_num columns; loading
\* (0,0),(3,0),(0,3),(3,3),(1,1) yields (0,0),(1,1),(0,3),(3,0),(3,3).
C24_ZOrder ==
    (sort_type = "ZORDER" /\ FlushedOK) =>
        /\ \A i \in 1..(Len(written) - 1) :
              TupleRowZOrderComparator(written[i], written[i + 1], sort_col_num) <= 0
        /\ hist = <<<<0, 0>>, <<3, 0>>, <<0, 3>>, <<3, 3>>, <<1, 1>>>>
              => written = <<<<0, 0>>, <<1, 1>>, <<0, 3>>, <<3, 0>>, <<3, 3>>>>

C24_Witness ==
    /\ sort_type = "ZORDER"
    /\ FlushedOK
    /\ hist = <<<<0, 0>>, <<3, 0>>, <<0, 3>>, <<3, 3>>, <<1, 1>>>>
    /\ written = <<<<0, 0>>, <<1, 1>>, <<0, 3>>, <<3, 0>>, <<3, 3>>>>

\* -------------------------------------------------------------- C25
\* C25: between operations the tracker accounts exactly what the table arena
\* and the scratch arena hold together, and the scratch arena holds at most the
\* block of one row.
C25_TrackerAccounting ==
    /\ mem_tracker = table_mem_pool + buffer_mem_pool_reserved
    /\ buffer_mem_pool_reserved <= 1
    /\ buffer_mem_pool <= buffer_mem_pool_reserved

\* Rows went in on both paths of the non-DUP branch, the scratch arena kept its
\* one block through the resets, and the flush finalized aggregate objects into
\* the table arena.
C25_Witness ==
    /\ MergedInsertReturnedBefore
    /\ NumAggObjects > 0
    /\ FlushedOK
    /\ buffer_mem_pool_reserved = 1
    /\ table_mem_pool = 2 * Len(skip_list)
    /\ mem_tracker = table_mem_pool + 1

\* -------------------------------------------------------------- C26
\* C26: InsertWithHint works on the hint the Find of the same insert call
\* produced, on the index as that Find saw it: after an insert has returned,
\* the entry under _hint carries the key of the row just inserted and is where
\* a Find for that key lands.  A hint left by an earlier insert is never used.
C26_HintFromSameFind ==
    (keys_type # "DUP_KEYS" /\ ~crashed /\ hist # <<>>) =>
        LET row == tuple_to_row(hist[Len(hist)])
        IN /\ hint \in 1..Len(skip_list)
           /\ row_comparator(skip_list[hint], row) = 0
           /\ find_row(Mem, row) = [found |-> TRUE, hint |-> hint]

\* The second insert found no equal key and went in before the first row, at
\* a position other than the one the first insert had left in _hint.
C26_Witness ==
    /\ keys_type # "DUP_KEYS"
    /\ ~crashed
    /\ flush_ret = "NONE"
    /\ Len(hist) = 2
    /\ Len(skip_list) = 2
    /\ row_comparator(tuple_to_row(hist[2]), tuple_to_row(hist[1])) < 0
    /\ hint = 1

\* -------------------------------------------------------------- C27
\* C27: in the AGG and UNIQUE models an insert whose key is already in the index
\* adds no entry and takes no row block: the entries keep their number and
\* order, every other row stays as it is, and the row of that key is changed
\* where it lies, keeping its key.
C27_FoundPathFrame ==
    [][(/\ keys_type # "DUP_KEYS"
        /\ Len(hist') = Len(hist) + 1
        /\ SkipListFind(skip_list, tuple_to_row(hist'[Len(hist')])).found)
       => LET pos == SkipListFind(skip_list, tuple_to_row(hist'[Len(hist')])).hint
          IN /\ Len(skip_list') = Len(skip_list)
             /\ \A i \in 1..Len(skip_list) : i # pos => skip_list'[i] = skip_list[i]
             /\ KeyOf(skip_list'[pos]) = KeyOf(skip_list[pos])
             /\ row_arena' = row_arena
             /\ table_mem_pool' = table_mem_pool
             /\ agg_object_pool' = agg_object_pool]_vars

\* An insert merged a different value into one of two rows of the index.
C27_Witness ==
    /\ keys_type \in {"AGG_KEYS", "UNIQUE_KEYS"}
    /\ ~crashed
    /\ flush_ret = "NONE"
    /\ Len(hist) = 3
    /\ KeyOf(hist[3]) \in {KeyOf(hist[1]), KeyOf(hist[2])}
    /\ KeyOf(hist[1]) # KeyOf(hist[2])
    /\ Len(skip_list) = 2
    /\ table_mem_pool = 2

\* -------------------------------------------------------------- C28
\* C28: in the AGG and UNIQUE models the aggregate objects created while a row
\* with a new key was encoded pass to the durable pool before the scratch pool
\* is cleared: the durable pool owns the objects of every row of the index,
\* and until a flush finalizes them the cells of the index refer to them.
C28_AggObjectsOwned ==
    keys_type # "DUP_KEYS" =>
        /\ agg_object_pool = Len(skip_list) * NumAggObjects
        /\ flush_ret = "NONE" => Cardinality(ObjCells(skip_list)) = agg_object_pool

\* Two rows with bitmap columns went in as new keys; the scratch pool was
\* cleared after each and the durable pool holds the objects of both.
C28_Witness ==
    /\ keys_type # "DUP_KEYS"
    /\ NumAggObjects > 0
    /\ ~crashed
    /\ flush_ret = "NONE"
    /\ Len(hist) = 2
    /\ Len(skip_list) = 2
    /\ agg_buffer_pool = 0
    /\ agg_object_pool = 2 * NumAggObjects

\* -------------------------------------------------------------- C29
\* C29: the index allows duplicates exactly when the key model is DUP_KEYS, and
\* then Insert of any row, equal keys present or not, adds an entry and reports
\* overwritten = false: the assertion after Insert in the DUP branch holds.
C29_DupInsertNeverOverwrites ==
    /\ can_dup <=> keys_type = "DUP_KEYS"
    /\ keys_type = "DUP_KEYS" =>
          \A tuple \in Tuples :
              LET res == SkipListInsert(skip_list, tuple_to_row(tuple), can_dup)
              IN /\ ~res.overwritten
                 /\ Len(res.list) = Len(skip_list) + 1

\* Three rows with one key went into a DUP_KEYS index and all three are there.
C29_Witness ==
    /\ keys_type = "DUP_KEYS"
    /\ ~crashed
    /\ Len(hist) = 3
    /\ \A i \in 1..3 : KeyOf(hist[i]) = KeyOf(hist[1])
    /\ Len(skip_list) = 3

\* -------------------------------------------------------------- C30
\* The writer calls of a fallback flush that are add_row calls.
AddRowCalls == { i \in 1..Len(writer_calls) : writer_calls[i].op = "add_row" }

\* C30: on the fallback path every row that reaches add_row was finalized
\* first and is handed over in its finalized form, the rows go to add_row once
\* each in index order, and the writer's flush() comes only after the add_row
\* of the last row.
C30_FinalizeThenAddRow ==
    (FlushReturned /\ SingleAnswer = "NOT_IMPLEMENTED") =>
        LET n == Cardinality(AddRowCalls)
        IN /\ n <= Len(skip_list)
           /\ AddRowCalls = 2..(n + 1)
           /\ \A i \in 1..n : skip_list[i] = agg_finalize_row(skip_list[i])
           /\ Len(written) <= n
           /\ \A i \in 1..Len(written) : written[i] = skip_list[i]
           /\ \A i \in 1..Len(writer_calls) :
                 writer_calls[i].op = "flush"
                     => (i = Len(writer_calls) /\ i = Len(skip_list) + 2)

\* Two rows with bitmap cells went through add_row and the writer's flush()
\* followed.
C30_Witness ==
    /\ FlushReturned
    /\ NumAggObjects > 0
    /\ Ops = <<"flush_single_memtable", "add_row", "add_row", "flush">>
    /\ Len(written) = 2
    /\ \A i \in 1..2 : written[i][2].rep = "slice"

\* -------------------------------------------------------------- C31
\* The add_row calls that returned an error.
FailedAddRows == { i \in AddRowCalls : writer_calls[i].st # "OK" }

\* C31: on the fallback path, when add_row returns an error for a row, flush
\* stops at once: that add_row is the last writer call (no later add_row, no
\* flush()), the rows before it were written and no other, no row after it is
\* finalized, the flush counter is not incremented and the error is returned.
C31_AddRowErrorStops ==
    (FlushReturned /\ FailedAddRows # {}) =>
        \A i \in FailedAddRows :
            /\ i = Len(writer_calls)
            /\ \A j \in 1..Len(writer_calls) : writer_calls[j].op # "flush"
            /\ Len(written) = i - 2
            /\ \A j \in 1..Len(skip_list), cid \in 1..num_columns :
                  schema[cid] = "BITMAP_UNION" =>
                      (skip_list[j][cid].rep = "obj" <=> j > i - 1)
            /\ memtable_flush_total = 0
            /\ flush_ret = writer_calls[i].st

\* The first add_row of a memtable with two bitmap rows failed: the second row
\* still holds its aggregate object.
C31_Witness ==
    /\ FlushReturned
    /\ NumAggObjects > 0
    /\ Ops = <<"flush_single_memtable", "add_row">>
    /\ writer_calls[2].st = "DISK_FULL"
    /\ Len(skip_list) = 2
    /\ skip_list[1][2].rep = "slice"
    /\ skip_list[2][2].rep = "obj"
    /\ written = <<>>
    /\ memtable_flush_total = 0
    /\ flush_ret = "DISK_FULL"

\* -------------------------------------------------------------- C32
\* An insert step that found its key in the index.
MergeStep ==
    /\ keys_type # "DUP_KEYS"
    /\ Len(hist') = Len(hist) + 1
    /\ SkipListFind(skip_list, tuple_to_row(hist'[Len(hist')])).found

\* The row that arrived in that step and the position of the row it met.
MergeSrc == tuple_to_row(hist'[Len(hist')])

MergePos == SkipListFind(skip_list, MergeSrc).hint

C33_MergeKeepsKey ==
    [][MergeStep =>
        /\ \A cid \in KeyColumns :
              skip_list'[MergePos][cid] = skip_list[MergePos][cid]
        /\ (/\ keys_type = "UNIQUE_KEYS"
            /\ has_sequence_col
            /\ MergeSrc[sequence_col_idx] < skip_list[MergePos][sequence_col_idx])
              => skip_list' = skip_list]_vars

\* A row with sequence value 0 and another value arrived after the row of its
\* key with sequence value 1, which is still the row of the index.
C33_Witness ==
    /\ keys_type = "UNIQUE_KEYS"
    /\ has_sequence_col
    /\ ~crashed
    /\ Len(hist) = 2
    /\ KeyOf(hist[1]) = KeyOf(hist[2])
    /\ hist[1][sequence_col_idx] = 1
    /\ hist[2][sequence_col_idx] = 0
    /\ hist[1][2] # hist[2][2]
    /\ skip_list = <<tuple_to_row(hist[1])>>

\* -------------------------------------------------------------- C34
\* A row of the index some cell of which is in its finalized form.
IsFinalized(row) ==
    \E cid \in 1..num_columns :
        schema[cid] = "BITMAP_UNION" /\ row[cid].rep = "slice"

\* What the scan has yielded: finalized rows, the rows of the index at the
\* positions they were fetched at, in comparator order; and no row of the
\* index is finalized but those.
YieldedInOrder ==
    /\ \A i \in 1..Len(yielded) :
          /\ yielded[i].row = agg_finalize_row(yielded[i].row)
          /\ yielded[i].pos \in 1..Len(skip_list)
          /\ yielded[i].pos <= it
          /\ skip_list[yielded[i].pos] = yielded[i].row
    /\ \A i, j \in 1..Len(yielded) :
          i < j => /\ yielded[i].pos < yielded[j].pos
                   /\ row_comparator(yielded[i].row, yielded[j].row) <= 0
    /\ \A p \in 1..Len(skip_list) : IsFinalized(skip_list[p]) => p \in Fetched

\* C34: the iterator yields finalized rows in comparator order and finalizes
\* lazily: a row is finalized only by get_current_row at its position, and
\* seek_to_first, next and valid change no row and not the index.
C34_IteratorLazy ==
    [][/\ YieldedInOrder'
       /\ (IterSeekToFirst \/ IterNext \/ IterValid) => skip_list' = skip_list
       /\ IterGetCurrentRow =>
             /\ Len(skip_list') = Len(skip_list)
             /\ \A p \in 1..Len(skip_list) : p # it => skip_list'[p] = skip_list[p]]_vars

\* The scan went past the first of two rows with bitmap cells without fetching
\* it and fetched the second: only the second is finalized.
C34_Witness ==
    /\ NumAggObjects > 0
    /\ Len(skip_list) = 2
    /\ it = 3
    /\ Fetched = {2}
    /\ ~IsFinalized(skip_list[1])
    /\ IsFinalized(skip_list[2])
    /\ yielded[1].row = skip_list[2]

\* -------------------------------------------------------------- C35
\* A step in which flush() or close() returns.
FlushOrCloseReturns == flush_ret = "NONE" /\ flush_ret' # "NONE"

\* C35: flush and close add, remove and reorder no index entry and leave
\* _rows alone, whether they succeed or fail: the index has the same entries
\* in the same blocks at the same positions, each with the cells it had or
\* their finalized form.
C35_FlushKeepsIndex ==
    [][FlushOrCloseReturns =>
        /\ rows' = rows
        /\ row_arena' = row_arena
        /\ Len(skip_list') = Len(skip_list)
        /\ \A p \in 1..Len(skip_list) :
              skip_list'[p] \in {skip_list[p], agg_finalize_row(skip_list[p])}]_vars

\* The writer's flush() failed at the end of the fallback path, on a memtable
\* whose three inserts left two rows.
C35_Witness ==
    /\ FlushReturned
    /\ keys_type = "AGG_KEYS"
    /\ rows = 3
    /\ Len(skip_list) = 2
    /\ Len(row_arena) = 2
    /\ flush_ret = "IO_ERROR"
    /\ Ops = <<"flush_single_memtable", "add_row", "add_row", "flush">>

\* -------------------------------------------------------------- C36
\* The text without its sign.
Unsigned(s) == IF s # <<>> /\ s[1] = "-" THEN Tail(s) ELSE s

\* A decimal numeral: an optional '-', digits and, optionally, a point and
\* digits.
IsDecimalText(s) ==
    LET u == Unsigned(s)
    IN \E i \in 1..Len(u) :
          /\ \A k \in 1..i : u[k] \in Digits
          /\ \/ i = Len(u)
             \/ /\ i + 2 <= Len(u)
                /\ u[i + 1] = "."
                /\ \A k \in (i + 2)..Len(u) : u[k] \in Digits

\* The digits of a decimal numeral before and after its point.
IntegerDigits(s) ==
    LET u == Unsigned(s)
    IN Cardinality({ i \in 1..Len(u) : \A k \in 1..i : u[k] \in Digits })

FractionDigits(s) ==
    LET u == Unsigned(s)
    IN IF IntegerDigits(s) = Len(u) THEN 0 ELSE Len(u) - IntegerDigits(s) - 1

\* C36: valid_decimal returns true exactly when the text is a decimal numeral
\* with at most precision - frac integer digits and at most frac fractional
\* digits, and its answer for a negative numeral is its answer for the
\* numeral without the sign.
C36_ValidDecimal ==
    ret # "NONE" =>
        /\ ret = Answer(/\ IsDecimalText(value_str)
                        /\ IntegerDigits(value_str) <= precision - frac
                        /\ FractionDigits(value_str) <= frac)
        /\ IsDecimalText(value_str)
              => ret = Answer(valid_decimal(Unsigned(value_str), precision, frac))

\* -------------------------------------------------------------- C37
\* The number two digits at positions i and i + 1 of a text stand for.
TwoDigits(s, i) == DigitValue(s[i]) * 10 + DigitValue(s[i + 1])

\* 'YYYY-MM-DD' with month in 1..12 and day in 1..31.
IsDateText(d) ==
    /\ Len(d) = 10
    /\ \A i \in {1, 2, 3, 4, 6, 7, 9, 10} : d[i] \in Digits
    /\ d[5] = "-" /\ d[8] = "-"
    /\ TwoDigits(d, 6) \in 1..12
    /\ TwoDigits(d, 9) \in 1..31

\* 'HH:MM:SS' with hour in 0..23, minute and second in 0..59.
IsTimeText(t) ==
    /\ Len(t) = 8
    /\ \A i \in {1, 2, 4, 5, 7, 8} : t[i] \in Digits
    /\ t[3] = ":" /\ t[6] = ":"
    /\ TwoDigits(t, 1) \in 0..23
    /\ TwoDigits(t, 4) \in 0..59
    /\ TwoDigits(t, 7) \in 0..59

IsSpaces(g) == \A i \in 1..Len(g) : g[i] = " "

\* A date, or a date followed by spaces and a time.
DateThenSpacesAndTime(s) ==
    /\ Len(s) >= 10
    /\ IsDateText(SubSeq(s, 1, 10))
    /\ \/ Len(s) = 10
       \/ /\ Len(s) >= 18
          /\ IsSpaces(SubSeq(s, 11, Len(s) - 8))
          /\ IsTimeText(SubSeq(s, Len(s) - 7, Len(s)))

\* A date followed by any number of spaces and then by a time or by nothing.
DateSpacesThenTime(s) ==
    /\ Len(s) >= 10
    /\ IsDateText(SubSeq(s, 1, 10))
    /\ \/ IsSpaces(SubSeq(s, 11, Len(s)))
       \/ /\ Len(s) >= 18
          /\ IsSpaces(SubSeq(s, 11, Len(s) - 8))
          /\ IsTimeText(SubSeq(s, Len(s) - 7, Len(s)))

\* C37 as stated: valid_datetime returns true exactly when the whole text is
\* 'YYYY-MM-DD', or 'YYYY-MM-DD' followed by spaces and 'HH:MM:SS', with every
\* field in its range.
C37_DateOptionalSpacesAndTime ==
    ret # "NONE" => ret = Answer(DateThenSpacesAndTime(value_str))

\* C37: valid_datetime returns true exactly when the whole text is
\* 'YYYY-MM-DD' followed by any number of spaces, none included, and then by
\* 'HH:MM:SS' or by nothing, with month in 1..12, day in 1..31 and, when there
\* is a time, hour in 0..23, minute and second in 0..59.
C37_ValidDatetime ==
    ret # "NONE" => ret = Answer(DateSpacesThenTime(value_str))

\* A date followed by spaces and no time was accepted.
C37_Witness ==
    /\ ret = "TRUE"
    /\ value_str = <<"2", "0", "2", "1", "-", "1", "2", "-", "3", "1", " ", " ">>

\* Memtables of tablets without a sequence column.
Spec == Init /\ [][Next]_vars

\* Memtables of tablets with a sequence column.
SpecSeq == InitSeq /\ [][Next]_vars

\* Memtables of tablets sorted in Z-order.
SpecZOrder == InitZOrder /\ [][NextZOrder]_vars

\* Memtables whose owner calls close() again after a flush or a close.
SpecReclose == InitReclose /\ [][NextReclose]_vars

\* Memtables of tablets that merge equal keys, with and without a sequence
\* column.
SpecMerge == InitMerge /\ [][Next]_vars

\* A memtable that is filled and then scanned through MemTable::Iterator.
SpecIter == InitIter /\ [][NextIter]_vars

\* One call of valid_decimal.
SpecDecimal == InitDecimal /\ [][NextDecimal]_vars

\* One call of valid_datetime.
SpecDatetime == InitDatetime /\ [][NextDatetime]_vars

\* Memtables that are flushed or closed, with and without aggregate objects.
SpecClose == InitClose /\ [][Next]_vars

\* A memtable whose owner may insert after flush or close.
SpecLate == InitLate /\ [][NextLate]_vars
====
